---- MODULE Spec2Model ----
(***************************************************************************)
(* The conversations store of src/common/stores/chat/store-chats.ts:       *)
(* the list of conversations, its CRUD operations, the within-conversation *)
(* edits built on _editConversation, the token accounting and the          *)
(* persistence pipeline (partialize, migrate, onRehydrateStorage).         *)
(*                                                                         *)
(* Objects are records.  An optional field of the source (a message's      *)
(* pendingIncomplete, a persisted conversation's abortController) is a     *)
(* field that is or is not in the record's DOMAIN; `delete o.f` removes it.*)
(***************************************************************************)
EXTENDS Integers, Sequences, FiniteSets, TLC

VARIABLES
    conversations,  \* ChatState.conversations: the list of DConversation
    nextCId,        \* the next id agiUuid('chat-dconversation') hands out
    chatLLMId,      \* what getChatLLMId() returns: the configured default model
    last            \* the last store call: its name, return value, aborted handles, log

vars == <<conversations, nextCId, chatLLMId, last>>

(***************************************************************************)
(* Bounds of the model.                                                    *)
(***************************************************************************)
MaxCId == 2      \* conversation ids the generator can hand out: 1..MaxCId
MaxMsgs == 2     \* messages in one conversation
MaxFrags == 2    \* fragments in one message

(***************************************************************************)
(* Values.                                                                 *)
(***************************************************************************)
NoController == "null"           \* abortController: null
LiveController == "live"         \* an AbortController whose abort() was not called
AbortedController == "aborted"   \* an AbortController whose abort() was called

NoLLM == "null"                  \* getChatLLMId() === null
RegisteredLLMs == {"llm-a", "llm-b", "llm-bad"}   \* the ids findLLMOrThrow resolves
ThrowingLLMs == {"llm-bad"}      \* registered, but the estimator throws on its descriptor
LLMIds == {NoLLM, "llm-a", "llm-b", "llm-bad", "llm-gone"}

ExternalCId == MaxCId + 1        \* an id made elsewhere (an imported file)
MissingCId == MaxCId + 2         \* an id no conversation ever has
MsgIds == 1..MaxMsgs             \* the message ids callers use
MissingMId == MaxMsgs + 1        \* an id no message ever has

\* Timestamps are kept relative to the running call: Date.now() is "now", and
\* every timestamp written by an earlier call is "earlier".  No code path
\* compares two timestamps, so the order among earlier ones is not kept.
DateNow == "now"
Earlier == "earlier"

NoFId == ""                      \* a fragment whose fId is missing (falsy)

Undefined == "undefined"         \* the value undefined, given to an optional string field
NoSymbol == "null"               \* userSymbol: null
\* the optional string fields of a conversation
OptionalStrings == {"autoTitle", "userTitle", "userSymbol", "systemPurposeId"}

\* abortController?.abort(): the controller object itself changes state
abort(controller) ==
    IF controller = NoController THEN NoController ELSE AbortedController

DeleteField(r, f) == [k \in (DOMAIN r) \ {f} |-> r[k]]
HasField(r, f) == f \in DOMAIN r
\* { ...r, ...patch }
Merge(r, patch) ==
    [k \in (DOMAIN r) \cup (DOMAIN patch) |-> IF k \in DOMAIN patch THEN patch[k] ELSE r[k]]
\* an optional field that holds undefined reads as a field that is absent, and
\* JSON.stringify leaves it out: the record is kept without it
Defined(r) ==
    [k \in {f \in DOMAIN r : f \notin OptionalStrings \/ r[f] # Undefined} |-> r[k]]

Range(s) == {s[i] : i \in DOMAIN s}
SelectIndex(s, Test(_)) == {i \in DOMAIN s : Test(s[i])}
\* Array.prototype.findIndex: the first index the test accepts, -1 when none (0-based)
findIndex(s, Test(_)) ==
    LET hits == SelectIndex(s, Test)
    IN  IF hits = {} THEN -1 ELSE (CHOOSE i \in hits : \A j \in hits : i <= j) - 1
Min(S) == CHOOSE x \in S : \A y \in S : x <= y

(***************************************************************************)
(* Fragments (chat.fragments).                                             *)
(***************************************************************************)
TextFragment(fId, text) ==
    [ft |-> "content", fId |-> fId, part |-> [pt |-> "text", text |-> text]]
PlaceholderFragment(fId, pText) ==
    [ft |-> "content", fId |-> fId, part |-> [pt |-> "ph", pText |-> pText]]
\* createErrorContentFragment(error): a content fragment with an error part and a new id
createErrorContentFragment(fId, error) ==
    [ft |-> "content", fId |-> fId, part |-> [pt |-> "error", error |-> error]]

isContentFragment(fragment) == fragment.ft = "content"

\* the ids agiId('chat-dfragment') hands out; never one the message already uses
GeneratedFIdOrder == <<"g1", "g2", "g3", "g4", "g5", "g6", "g7", "g8">>
agiIdFragment(used) ==
    GeneratedFIdOrder[Min({i \in DOMAIN GeneratedFIdOrder : GeneratedFIdOrder[i] \notin used})]

(***************************************************************************)
(* Token accounting (lines 388-414).                                       *)
(***************************************************************************)
\* estimateTokensForFragments: the external estimator, a function of the
\* fragments and the model
FragmentTokens(fragment) ==
    IF fragment.part.pt = "text" THEN 2
    ELSE IF fragment.part.pt = "ph" THEN 1
    ELSE 3
\* the tokenizer of "llm-b" counts one token more per fragment
ModelTokens(llmId) == IF llmId = "llm-b" THEN 1 ELSE 0
RECURSIVE estimateTokensForFragments(_, _)
estimateTokensForFragments(fragments, llmId) ==
    IF fragments = <<>> THEN 0
    ELSE FragmentTokens(Head(fragments)) + ModelTokens(llmId)
            + estimateTokensForFragments(Tail(fragments), llmId)

\* updateMessageTokenCount without its try/catch and its !llmId test: a failing
\* lookup or estimator leaves the count as it was
updateMessageTokenCountUncaught(message, llmId, forceUpdate) ==
    IF (forceUpdate \/ message.tokenCount = 0) /\ llmId \in RegisteredLLMs \ ThrowingLLMs
    THEN [message EXCEPT !.tokenCount = estimateTokensForFragments(message.fragments, llmId)]
    ELSE message
\* updateMessageTokenCount writes message.tokenCount in place: the message after the call
updateMessageTokenCount(message, llmId, forceUpdate) ==
    IF forceUpdate \/ message.tokenCount = 0
    THEN IF llmId = NoLLM
         THEN [message EXCEPT !.tokenCount = 0]
         ELSE IF llmId \in RegisteredLLMs /\ llmId \notin ThrowingLLMs
              THEN [message EXCEPT !.tokenCount = estimateTokensForFragments(message.fragments, llmId)]
              \* findLLMOrThrow or the estimator threw, inside the try: caught
              ELSE [message EXCEPT !.tokenCount = 0]
    ELSE message

\* updateMessagesTokenCounts: the messages after the call, and the returned sum
updateMessagesTokenCountsMessages(messages, llmId, forceUpdate) ==
    [i \in DOMAIN messages |-> updateMessageTokenCount(messages[i], llmId, forceUpdate)]
RECURSIVE SumCounts(_)
SumCounts(messages) ==
    IF messages = <<>> THEN 0
    ELSE 4 + Head(messages).tokenCount + SumCounts(Tail(messages))
updateMessagesTokenCounts(messages, llmId, forceUpdate) ==
    3 + SumCounts(updateMessagesTokenCountsMessages(messages, llmId, forceUpdate))

\* messages.reduce((sum, message) => sum + 4 + message.tokenCount || 0, 3):
\* `||` binds looser than `+`, so each step is (sum + 4 + tokenCount) || 0
OrZero(x) == IF x = 0 THEN 0 ELSE x
RECURSIVE reduceTokenCount(_, _)
reduceTokenCount(messages, sum) ==
    IF messages = <<>> THEN sum
    ELSE reduceTokenCount(Tail(messages), OrZero(sum + 4 + Head(messages).tokenCount))
foldTokenCountFromZero(messages) == reduceTokenCount(messages, 0)
foldTokenCount(messages) == reduceTokenCount(messages, 3)

(***************************************************************************)
(* Conversations and messages (chat.conversation, chat.message).           *)
(***************************************************************************)
\* createDConversation(): an empty conversation with a new id
createDConversation(id) ==
    [id |-> id, messages |-> <<>>, tokenCount |-> foldTokenCount(<<>>),
     updated |-> DateNow, abortController |-> NoController]

\* the ids duplicateDMessage gives the messages of the branch `cId`
agiUuidMessage(cId, index) == 10 * cId + index
duplicateDMessage(message, cId, index) == [message EXCEPT !.id = agiUuidMessage(cId, index)]
\* duplicateCConversation(conversation, lastMessageId): the messages up to and
\* including lastMessageId (all of them when it is undefined or not found)
duplicateCConversation(conversation, lastMessageId, newId) ==
    LET messageIndex == IF lastMessageId = <<>> THEN -1
                        ELSE findIndex(conversation.messages, LAMBDA m : m.id = lastMessageId[1])
        messagesToKeep == IF messageIndex >= 0 THEN messageIndex + 1 ELSE Len(conversation.messages)
        kept == [i \in 1..messagesToKeep |-> duplicateDMessage(conversation.messages[i], newId, i)]
    IN  [id |-> newId, messages |-> kept, tokenCount |-> foldTokenCount(kept),
         updated |-> DateNow, abortController |-> NoController]

\* time passes between two calls: what was "now" is "earlier"
AgeMessage(message) == [message EXCEPT !.updated = Earlier]
AgeConversation(c) ==
    [c EXCEPT !.updated = Earlier,
              !.messages = [i \in DOMAIN c.messages |-> AgeMessage(c.messages[i])]]
Aged(list) == [i \in DOMAIN list |-> AgeConversation(list[i])]

Ids(list) == {list[i].id : i \in DOMAIN list}
\* conversations.find(_c => _c.id === cId): <<>> when there is none
find(list, cId) ==
    LET i == findIndex(list, LAMBDA c : c.id = cId)
    IN  IF i < 0 THEN <<>> ELSE <<list[i + 1]>>
\* conversations.filter(keep)
filter(list, Keep(_)) == SelectSeq(list, Keep)

(***************************************************************************)
(* The state of the store.                                                 *)
(***************************************************************************)
\* as if no message were ever pending
isPendingNever(message) == FALSE
\* !!message.pendingIncomplete
isPending(message) == HasField(message, "pendingIncomplete") /\ message.pendingIncomplete

\* the record of a call: its name, what it returned (<<>> for null or nothing)
\* and the ids of the conversations on whose handle it called abort()
\* `before`: what the call found, where a property compares it with what the
\* call left: after appendMessage the conversation as it was (kept by a
\* deleteMessage of the same message that follows at once), after a
\* replaceMessageFragment that misses the message as it was, during a load
\* the blob as it was read
\* `log`: what the call wrote with console.warn and console.error
Call(op, ret, aborted) ==
    [op |-> op, ret |-> ret, aborted |-> aborted, before |-> <<>>, log |-> {}]
ClashWarning == "Conversation ID clash, changing ID"
FragmentNotFound == "replaceFragment: fragment not found"

Init ==
    /\ conversations = <<createDConversation(1)>>     \* defaultConversations
    /\ nextCId = 2
    /\ chatLLMId = "llm-a"
    /\ last = Call("init", <<>>, {})

\* the ids of the conversations whose handle a call on conversationId aborts
AbortedBy(list, conversationId) ==
    {c.id : c \in {x \in Range(list) : x.id = conversationId /\ x.abortController # NoController}}
\* the ids, among those a call names, of the conversations whose controller
\* the call has left aborted
NewlyAborted(ids, before, after) ==
    {before[i].id : i \in {j \in DOMAIN before :
        /\ before[j].id \in ids
        /\ before[j].abortController # NoController
        /\ after[j].abortController = AbortedController}}

(***************************************************************************)
(* CRUD of conversations (lines 64-133).                                   *)
(***************************************************************************)
prependNewConversation ==
    /\ nextCId <= MaxCId
    /\ LET newConversation == createDConversation(nextCId)
       IN  /\ conversations' = <<newConversation>> \o Aged(conversations)
           /\ last' = Call("prependNewConversation", <<newConversation.id>>, {})
    /\ nextCId' = nextCId + 1
    /\ UNCHANGED chatLLMId

\* conversations.find(_c => _c.id === cId)?.abortController?.abort(): the list after it
abortExistingNever(list, cId) == list
abortExisting(list, cId) ==
    LET i == findIndex(list, LAMBDA c : c.id = cId)
    IN  IF i < 0 THEN list ELSE [list EXCEPT ![i + 1].abortController = abort(@)]

\* line 90: [conversation, ...conversations.filter(_c => _c.id !== conversation.id)]
importedFirstKeepingAll(conversation, list) == <<conversation>> \o list
importedFirst(conversation, list) ==
    <<conversation>> \o filter(list, LAMBDA c : c.id # conversation.id)

importConversation(conversation, preventClash) ==
    LET list == Aged(conversations)
        existing == find(list, conversation.id)
        clash == existing # <<>>
        aborted == IF clash THEN abortExisting(list, conversation.id) ELSE list
        newId == IF clash /\ preventClash THEN nextCId ELSE conversation.id
        imported == [conversation EXCEPT
                        !.id = newId,
                        !.messages = updateMessagesTokenCountsMessages(@, chatLLMId, TRUE),
                        !.tokenCount = updateMessagesTokenCounts(conversation.messages, chatLLMId, TRUE)]
    IN  /\ (clash /\ preventClash) => nextCId <= MaxCId
        /\ conversations' = importedFirst(imported, aborted)
        /\ nextCId' = IF clash /\ preventClash THEN nextCId + 1 ELSE nextCId
        /\ last' = [Call("importConversation", <<imported.id>>, NewlyAborted({conversation.id}, list, aborted))
                    EXCEPT !.log = IF clash /\ preventClash THEN {ClashWarning} ELSE {}]
        /\ UNCHANGED chatLLMId

\* line 105: [branched, ...conversations]
branchedLast(branched, list) == list \o <<branched>>
branchedFirst(branched, list) == <<branched>> \o list

branchConversation(conversationId, messageId) ==
    LET list == Aged(conversations)
        conversation == find(list, conversationId)
    IN  IF conversation = <<>>
        THEN /\ conversations' = list
             /\ last' = Call("branchConversation", <<>>, {})
             /\ UNCHANGED <<nextCId, chatLLMId>>
        ELSE /\ nextCId <= MaxCId
             /\ LET branched == duplicateCConversation(conversation[1], messageId, nextCId)
                IN  /\ conversations' = branchedFirst(branched, list)
                    /\ last' = Call("branchConversation", <<branched.id>>, {})
             /\ nextCId' = nextCId + 1
             /\ UNCHANGED chatLLMId

\* a way to write the set S as an array
RECURSIVE SetToSeq(_)
SetToSeq(S) == IF S = {} THEN <<>> ELSE LET x == Min(S) IN <<x>> \o SetToSeq(S \ {x})
includes(array, x) == \E i \in DOMAIN array : array[i] = x

\* conversationIds.forEach(id => conversations.find(_c => _c.id === id)?.abortController?.abort())
\* deleteConversations without its line 118
abortAllNever(list, conversationIds) == list
RECURSIVE abortAll(_, _)
abortAll(list, conversationIds) ==
    IF conversationIds = <<>> THEN list
    ELSE abortAll(abortExisting(list, Head(conversationIds)), Tail(conversationIds))

\* lines 124-125: a new conversation when none is left
orCreateNever(remaining, id) == remaining
orCreate(remaining, id) ==
    IF Len(remaining) = 0 THEN <<createDConversation(id)>> ELSE remaining

\* line 132: the index of the conversation whose id is returned
nextInLineAlwaysFirst(cIndex, newConversations) == 0
nextInLine(cIndex, newConversations) ==
    IF cIndex >= 0 /\ cIndex < Len(newConversations) THEN cIndex ELSE 0

\* newConversations[index].id; reading .id of undefined is a TypeError (no value)
idAt(list, index) == IF index + 1 \in DOMAIN list THEN <<list[index + 1].id>> ELSE <<>>

deleteConversations(conversationIds) ==
    LET list == Aged(conversations)
        \* find the index of first conversation to delete
        cIndex == IF Len(conversationIds) > 0
                  THEN findIndex(list, LAMBDA c : c.id = conversationIds[1]) ELSE -1
        \* abort all pending requests
        aborted == abortAll(list, conversationIds)
        \* remove from the list
        remaining == filter(aborted, LAMBDA c : ~includes(conversationIds, c.id))
        \* create a new conversation if there are no more
        newConversations == orCreate(remaining, nextCId)
    IN  /\ Len(remaining) = 0 => nextCId <= MaxCId
        /\ conversations' = newConversations
        /\ nextCId' = IF Len(remaining) = 0 THEN nextCId + 1 ELSE nextCId
        /\ last' = Call("deleteConversations",
                        idAt(newConversations, nextInLine(cIndex, newConversations)),
                        NewlyAborted(Range(conversationIds), list, aborted))
        /\ UNCHANGED chatLLMId

(***************************************************************************)
(* Within a conversation (lines 138-307).                                  *)
(***************************************************************************)
\* _editConversation: the matching conversation becomes { ...conversation, ...update }
\* as if the map of _editConversation took every conversation for the one named
matchesAny(conversation, conversationId) == TRUE
\* line 141: conversation.id === conversationId
matches(conversation, conversationId) == conversation.id = conversationId
_editConversation(list, conversationId, update(_)) ==
    [i \in DOMAIN list |->
        IF matches(list[i], conversationId)
        THEN Defined(Merge(list[i], update(list[i]))) ELSE list[i]]

setAbortController(conversationId, abortController) ==
    /\ conversations' = _editConversation(Aged(conversations), conversationId,
                            LAMBDA c : [abortController |-> abortController])
    /\ last' = Call("setAbortController", <<>>, {})
    /\ UNCHANGED <<nextCId, chatLLMId>>

abortConversationTemp(conversationId) ==
    /\ conversations' = _editConversation(Aged(conversations), conversationId,
                            LAMBDA c : [abortController |-> NoController])
    /\ last' = Call("abortConversationTemp", <<>>,
                    AbortedBy(conversations, conversationId))
    /\ UNCHANGED <<nextCId, chatLLMId>>

\* setMessages as if line 172 passed forceUpdate = true
setMessagesUpdateForced(conversation, newMessages, llmId) ==
    Merge([messages |-> updateMessagesTokenCountsMessages(newMessages, llmId, TRUE),
           tokenCount |-> updateMessagesTokenCounts(newMessages, llmId, TRUE),
           updated |-> DateNow,
           abortController |-> NoController],
          \* lines 169-171: the automatic title goes with the last message
          IF Len(newMessages) # 0 THEN <<>> ELSE [autoTitle |-> Undefined])
setMessagesUpdate(conversation, newMessages, llmId) ==
    Merge([messages |-> updateMessagesTokenCountsMessages(newMessages, llmId, FALSE),
           tokenCount |-> updateMessagesTokenCounts(newMessages, llmId, FALSE),
           updated |-> DateNow,
           abortController |-> NoController],
          \* lines 169-171: the automatic title goes with the last message
          IF Len(newMessages) # 0 THEN <<>> ELSE [autoTitle |-> Undefined])

setMessages(conversationId, newMessages) ==
    /\ conversations' = _editConversation(Aged(conversations), conversationId,
                            LAMBDA c : setMessagesUpdate(c, newMessages, chatLLMId))
    /\ last' = Call("setMessages", <<>>,
                    AbortedBy(conversations, conversationId))
    /\ UNCHANGED <<nextCId, chatLLMId>>

\* appendMessage as if it ran the estimator over the whole list
appendMessageUpdateRecountingAll(conversation, message, llmId) ==
    LET messages == updateMessagesTokenCountsMessages(
                        Append(conversation.messages, message), llmId, TRUE)
    IN  [messages |-> messages, tokenCount |-> foldTokenCount(messages), updated |-> DateNow]
appendMessageUpdate(conversation, message, llmId) ==
    LET counted == IF ~isPending(message)
                   THEN updateMessageTokenCount(message, llmId, TRUE) ELSE message
        messages == Append(conversation.messages, counted)
    IN  [messages |-> messages, tokenCount |-> foldTokenCount(messages), updated |-> DateNow]

deleteMessageUpdateKeepingCount(conversation, messageId) ==
    LET messages == SelectSeq(conversation.messages, LAMBDA m : m.id # messageId)
    IN  [messages |-> messages, tokenCount |-> conversation.tokenCount, updated |-> DateNow]
deleteMessageUpdate(conversation, messageId) ==
    LET messages == SelectSeq(conversation.messages, LAMBDA m : m.id # messageId)
    IN  [messages |-> messages, tokenCount |-> foldTokenCount(messages), updated |-> DateNow]

\* the message editMessage puts in place of the one with id messageId
editedMessage(message, update(_), removePendingState, touchUpdated, llmId) ==
    LET patched == Merge(message, update(message))
        touched == IF touchUpdated THEN Merge(patched, [updated |-> DateNow]) ELSE patched
        updatedMessage == IF removePendingState
                          THEN DeleteField(touched, "pendingIncomplete") ELSE touched
    IN  IF ~isPending(updatedMessage)
        THEN updateMessageTokenCount(updatedMessage, llmId, TRUE)
        ELSE updatedMessage

editMessageUpdate(conversation, messageId, update(_), removePendingState, touchUpdated, llmId) ==
    LET messages == [i \in DOMAIN conversation.messages |->
                        IF conversation.messages[i].id # messageId
                        THEN conversation.messages[i]
                        ELSE editedMessage(conversation.messages[i], update,
                                           removePendingState, touchUpdated, llmId)]
    IN  [messages |-> messages,
         tokenCount |-> foldTokenCount(messages),
         updated |-> IF touchUpdated THEN DateNow ELSE conversation.updated]

\* the patch functions of the three fragment operations
appendFragmentPatch(message, fragment) ==
    [fragments |-> Append(message.fragments, fragment)]
deleteFragmentPatch(message, fragmentId) ==
    [fragments |-> SelectSeq(message.fragments, LAMBDA f : f.fId # fragmentId)]
replaceFragmentPatchOrAppend(message, fragmentId, newFragment) ==
    LET fragmentIndex == findIndex(message.fragments, LAMBDA f : f.fId = fragmentId)
    IN  IF fragmentIndex < 0
        THEN [fragments |-> Append(message.fragments, newFragment)]
        ELSE [fragments |-> [i \in DOMAIN message.fragments |->
                                IF i - 1 = fragmentIndex THEN newFragment ELSE message.fragments[i]]]
replaceFragmentPatch(message, fragmentId, newFragment) ==
    LET fragmentIndex == findIndex(message.fragments, LAMBDA f : f.fId = fragmentId)
    IN  IF fragmentIndex < 0
        THEN <<>>     \* return {}
        ELSE [fragments |-> [i \in DOMAIN message.fragments |->
                                IF i - 1 = fragmentIndex THEN newFragment ELSE message.fragments[i]]]

messagesOf(list, conversationId) ==
    LET c == find(list, conversationId) IN IF c = <<>> THEN <<>> ELSE c[1].messages
messageOf(list, conversationId, messageId) ==
    LET i == findIndex(messagesOf(list, conversationId), LAMBDA m : m.id = messageId)
    IN  IF i < 0 THEN <<>> ELSE <<messagesOf(list, conversationId)[i + 1]>>

appendMessage(conversationId, message) ==
    /\ Len(messagesOf(conversations, conversationId)) < MaxMsgs
    /\ conversations' = _editConversation(Aged(conversations), conversationId,
                            LAMBDA c : appendMessageUpdate(c, message, chatLLMId))
    /\ last' = [Call("appendMessage", <<>>, {}) EXCEPT !.before =
                    LET c == find(Aged(conversations), conversationId)
                    IN  IF c = <<>> THEN <<>>
                        ELSE <<[cId |-> conversationId, mId |-> message.id,
                                messages |-> c[1].messages, tokenCount |-> c[1].tokenCount]>>]
    /\ UNCHANGED <<nextCId, chatLLMId>>

deleteMessage(conversationId, messageId) ==
    /\ conversations' = _editConversation(Aged(conversations), conversationId,
                            LAMBDA c : deleteMessageUpdate(c, messageId))
    /\ last' = [Call("deleteMessage", <<>>, {}) EXCEPT !.before =
                    IF /\ last.op = "appendMessage" /\ last.before # <<>>
                       /\ last.before[1].cId = conversationId /\ last.before[1].mId = messageId
                    THEN <<[last.before[1] EXCEPT !.messages =
                                [i \in DOMAIN @ |-> AgeMessage(@[i])]]>>
                    ELSE <<>>]
    /\ UNCHANGED <<nextCId, chatLLMId>>

\* editMessage with a Partial<DMessage> as its update
editMessage(conversationId, messageId, update, removePendingState, touchUpdated) ==
    /\ conversations' = _editConversation(Aged(conversations), conversationId,
                            LAMBDA c : editMessageUpdate(c, messageId, LAMBDA m : update,
                                                         removePendingState, touchUpdated, chatLLMId))
    /\ last' = Call("editMessage", <<>>, {})
    /\ UNCHANGED <<nextCId, chatLLMId>>

appendMessageFragment(conversationId, messageId, fragment, removePendingState, touchUpdated) ==
    /\ \A m \in Range(messagesOf(conversations, conversationId)) :
            m.id = messageId => Len(m.fragments) < MaxFrags
    /\ conversations' = _editConversation(Aged(conversations), conversationId,
                            LAMBDA c : editMessageUpdate(c, messageId,
                                                         LAMBDA m : appendFragmentPatch(m, fragment),
                                                         removePendingState, touchUpdated, chatLLMId))
    /\ last' = Call("appendMessageFragment", <<>>, {})
    /\ UNCHANGED <<nextCId, chatLLMId>>

deleteMessageFragment(conversationId, messageId, fragmentId, removePendingState, touchUpdated) ==
    /\ conversations' = _editConversation(Aged(conversations), conversationId,
                            LAMBDA c : editMessageUpdate(c, messageId,
                                                         LAMBDA m : deleteFragmentPatch(m, fragmentId),
                                                         removePendingState, touchUpdated, chatLLMId))
    /\ last' = Call("deleteMessageFragment", <<>>, {})
    /\ UNCHANGED <<nextCId, chatLLMId>>

replaceMessageFragment(conversationId, messageId, fragmentId, newFragment, removePendingState, touchUpdated) ==
    /\ conversations' = _editConversation(Aged(conversations), conversationId,
                            LAMBDA c : editMessageUpdate(c, messageId,
                                                         LAMBDA m : replaceFragmentPatch(m, fragmentId, newFragment),
                                                         removePendingState, touchUpdated, chatLLMId))
    /\ last' = LET c == find(Aged(conversations), conversationId)
                   m == messageOf(Aged(conversations), conversationId, messageId)
                   miss == m # <<>> /\ findIndex(m[1].fragments, LAMBDA f : f.fId = fragmentId) < 0
               IN  [Call("replaceMessageFragment", <<>>, {}) EXCEPT
                        \* console.error(`replaceFragment: fragment not found for ID ...`)
                        !.log = IF miss THEN {FragmentNotFound} ELSE {},
                        !.before = IF miss
                                   THEN <<[cId |-> conversationId, mId |-> messageId,
                                           touchUpdated |-> touchUpdated,
                                           messages |-> Len(c[1].messages),
                                           fragments |-> m[1].fragments,
                                           updated |-> <<c[1].updated, m[1].updated>>]>>
                                   ELSE <<>>]
    /\ UNCHANGED <<nextCId, chatLLMId>>

\* updateMetadata: the message gets { ...message.metadata, ...metadataDelta };
\* no count is computed and the conversation keeps its tokenCount
updateMetadataUpdate(conversation, messageId, metadataDelta, touchUpdated) ==
    LET messages == [i \in DOMAIN conversation.messages |->
            LET message == conversation.messages[i]
            IN  IF message.id # messageId THEN message
                ELSE Merge(message,
                        [metadata |-> Merge(IF HasField(message, "metadata")
                                            THEN message.metadata ELSE <<>>, metadataDelta),
                         updated |-> IF touchUpdated THEN DateNow ELSE message.updated])]
    IN  [messages |-> messages,
         updated |-> IF touchUpdated THEN DateNow ELSE conversation.updated]

updateMetadata(conversationId, messageId, metadataDelta, touchUpdated) ==
    /\ conversations' = _editConversation(Aged(conversations), conversationId,
                            LAMBDA c : updateMetadataUpdate(c, messageId, metadataDelta, touchUpdated))
    /\ last' = Call("updateMetadata", <<>>, {})
    /\ UNCHANGED <<nextCId, chatLLMId>>

\* lines 285-307: the setters patch one field
setSystemPurposeId(conversationId, personaId) ==
    /\ conversations' = _editConversation(Aged(conversations), conversationId,
                            LAMBDA c : [systemPurposeId |-> personaId])
    /\ last' = Call("setSystemPurposeId", <<>>, {})
    /\ UNCHANGED <<nextCId, chatLLMId>>

setAutoTitle(conversationId, autoTitle) ==
    /\ conversations' = _editConversation(Aged(conversations), conversationId,
                            LAMBDA c : [autoTitle |-> autoTitle])
    /\ last' = Call("setAutoTitle", <<>>, {})
    /\ UNCHANGED <<nextCId, chatLLMId>>

setUserTitle(conversationId, userTitle) ==
    /\ conversations' = _editConversation(Aged(conversations), conversationId,
                            LAMBDA c : [userTitle |-> userTitle])
    /\ last' = Call("setUserTitle", <<>>, {})
    /\ UNCHANGED <<nextCId, chatLLMId>>

\* userSymbol || undefined: null and the empty string give undefined
setUserSymbol(conversationId, userSymbol) ==
    /\ conversations' = _editConversation(Aged(conversations), conversationId,
                            LAMBDA c : [userSymbol |-> IF userSymbol \in {NoSymbol, ""}
                                                      THEN Undefined ELSE userSymbol])
    /\ last' = Call("setUserSymbol", <<>>, {})
    /\ UNCHANGED <<nextCId, chatLLMId>>

\* the configured default model changes (store-llms, outside this store):
\* getChatLLMId() returns another id from now on
setChatLLMId(llmId) ==
    /\ llmId # chatLLMId
    /\ chatLLMId' = llmId
    /\ conversations' = Aged(conversations)
    /\ last' = Call("setChatLLMId", <<>>, {})
    /\ UNCHANGED nextCId

(***************************************************************************)
(* Persistence (lines 310-378).                                            *)
(***************************************************************************)
CurrentVersion == 4

\* partialize: every conversation without its abortController
partialize(list) == [i \in DOMAIN list |-> DeleteField(list[i], "abortController")]

isImageRefPart(part) == part.pt = "image_ref"

\* lines 356-364: the dblobId rename and the missing fId, for one fragment
fixupFragmentKeepingFId(fragment, used) == fragment
fixupFragment(fragment, used) ==
    LET renamed ==
            IF /\ isContentFragment(fragment) /\ isImageRefPart(fragment.part)
               /\ fragment.part.dataRef.reftype = "dblob"
               /\ HasField(fragment.part.dataRef, "dblobId")
            THEN [fragment EXCEPT !.part.dataRef =
                     DeleteField(Merge(@, [dblobAssetId |-> @.dblobId]), "dblobId")]
            ELSE fragment
    IN  IF renamed.fId = NoFId THEN [renamed EXCEPT !.fId = agiIdFragment(used)] ELSE renamed
RECURSIVE fixupFragments(_, _)
fixupFragments(fragments, used) ==
    IF fragments = <<>> THEN <<>>
    ELSE LET f == fixupFragment(Head(fragments), used)
         IN  <<f>> \o fixupFragments(Tail(fragments), used \cup {f.fId})

\* onRehydrateStorage without its lines 367-371
replacePlaceholdersNever(fragments, used) == fragments
\* lines 367-371: a placeholder becomes an error fragment
RECURSIVE replacePlaceholders(_, _)
replacePlaceholders(fragments, used) ==
    IF fragments = <<>> THEN <<>>
    ELSE LET f == Head(fragments)
             g == IF isContentFragment(f) /\ f.part.pt = "ph"
                  THEN createErrorContentFragment(agiIdFragment(used),
                                                  f.part.pText \o " (did not complete)")
                  ELSE f
         IN  <<g>> \o replacePlaceholders(Tail(fragments), used \cup {g.fId})

FIds(fragments) == {f.fId : f \in Range(fragments)}

rehydrateMessage(message) ==
    LET fixed == fixupFragments(message.fragments, FIds(message.fragments))
        replaced == replacePlaceholders(fixed, FIds(fixed))
    IN  DeleteField(DeleteField([message EXCEPT !.fragments = replaced],
                                "pendingIncomplete"), "typing")

rehydrateConversation(conversation) ==
    Merge([conversation EXCEPT !.messages = [i \in DOMAIN @ |-> rehydrateMessage(@[i])]],
          [abortController |-> NoController])

\* onRehydrateStorage: the state after the fixups
onRehydrateStorage(list) == [i \in DOMAIN list |-> rehydrateConversation(list[i])]

\* for (const fragment of message.fragments) throws a TypeError on a message
\* that has no fragments: the first such message, as <<conversation, message>> indices
hasFragments(message) == HasField(message, "fragments")
firstWithoutFragments(list) ==
    LET bad == {p \in UNION {{<<i, j>> : j \in DOMAIN list[i].messages} : i \in DOMAIN list} :
                    ~hasFragments(list[p[1]].messages[p[2]])}
    IN  IF bad = {} THEN <<>>
        ELSE CHOOSE p \in bad : \A q \in bad : p[1] < q[1] \/ (p[1] = q[1] /\ p[2] <= q[2])
\* the fixups done in place before the TypeError
rehydratedUpTo(list, p) ==
    [i \in DOMAIN list |->
        IF i < p[1] THEN rehydrateConversation(list[i])
        ELSE IF i > p[1] THEN list[i]
        ELSE Merge([list[i] EXCEPT !.messages =
                        [j \in DOMAIN @ |-> IF j < p[2] THEN rehydrateMessage(@[j]) ELSE @[j]]],
                   [abortController |-> NoController])]

\* convertDConversation_V3_V4 (modules/trade/trade.types): the single text of a
\* legacy message becomes its one text fragment, `typing` becomes pendingIncomplete
convertDMessage_V3_V4(message) ==
    LET text == IF HasField(message, "text") THEN message.text ELSE "undefined"
        rest == DeleteField(DeleteField(message, "text"), "typing")
        converted == Merge(rest, [fragments |-> <<TextFragment(agiIdFragment({}), text)>>])
    IN  IF HasField(message, "typing") /\ message.typing
        THEN Merge(converted, [pendingIncomplete |-> TRUE]) ELSE converted
convertDConversation_V3_V4(conversation) ==
    [conversation EXCEPT !.messages = [i \in DOMAIN @ |-> convertDMessage_V3_V4(@[i])]]

\* line 326: fromVersion < 4 && state && state.conversations && state.conversations.length
needsConversion(list, fromVersion) == fromVersion < CurrentVersion /\ Len(list) > 0
\* lines 326-330: state.conversations after migrate, given what backupIdbV3 resolved to
migratedOnlyIfBackedUp(list, fromVersion, backedUp) ==
    IF needsConversion(list, fromVersion) /\ backedUp
    THEN [i \in DOMAIN list |-> convertDConversation_V3_V4(list[i])]
    ELSE list
migrated(list, fromVersion, backedUp) ==
    IF needsConversion(list, fromVersion)
    THEN [i \in DOMAIN list |-> convertDConversation_V3_V4(list[i])]
    ELSE list
MigratedWarning == "Migrated app-chats from v3 to v4"
RehydrateTypeError == "TypeError: message.fragments is not iterable"

\* what the load holds: the version tag of the blob, its conversations as they
\* were read, and whether backupIdbV3 was called and what it resolved to
Blob(version, list, backedUp) ==
    <<[version |-> version, conversations |-> list, backedUp |-> backedUp]>>

\* migrate(state, fromVersion): persist calls it when the version tag of the
\* blob is not the current one
migrate(backedUp) ==
    /\ last.op = "persisted"
    /\ last.before[1].version # CurrentVersion
    /\ LET fromVersion == last.before[1].version
           called == needsConversion(conversations, fromVersion)
       IN  /\ conversations' = migrated(conversations, fromVersion, backedUp)
           /\ last' = [Call("migrate", <<>>, {}) EXCEPT
                          !.log = IF called /\ backedUp THEN {MigratedWarning} ELSE {},
                          !.before = Blob(fromVersion, last.before[1].conversations,
                                          IF called THEN <<backedUp>> ELSE <<>>)]
    /\ UNCHANGED <<nextCId, chatLLMId>>

\* the callback of onRehydrateStorage, on the migrated state (or on the blob
\* as read, when its version is the current one)
rehydrate ==
    /\ \/ last.op = "migrate"
       \/ last.op = "persisted" /\ last.before[1].version = CurrentVersion
    /\ LET p == firstWithoutFragments(conversations)
       IN  IF p = <<>>
           THEN /\ conversations' = onRehydrateStorage(conversations)
                /\ last' = [Call("onRehydrateStorage", <<>>, {}) EXCEPT !.before = last.before]
           ELSE /\ conversations' = rehydratedUpTo(conversations, p)
                /\ last' = [Call("onRehydrateStorage", <<>>, {}) EXCEPT
                               !.before = last.before, !.log = {RehydrateTypeError}]
    /\ UNCHANGED <<nextCId, chatLLMId>>

(***************************************************************************)
(* The arguments callers choose.                                           *)
(***************************************************************************)
CIdArgs == Ids(conversations) \cup {MissingCId}
MIdArgs(conversationId) ==
    {m.id : m \in Range(messagesOf(conversations, conversationId))} \cup {MissingMId}
MIdOrNullArgs(conversationId) == {<<>>} \cup {<<mId>> : mId \in MIdArgs(conversationId)}
FIdArgs(conversationId, messageId) ==
    LET m == messageOf(conversations, conversationId, messageId)
    IN  (IF m = <<>> THEN {} ELSE {f.fId : f \in Range(m[1].fragments)}) \cup {"f-none"}
HandleArgs == {NoController, LiveController}
\* the metadataDelta callers of updateMetadata pass
MetadataDeltas == { [ranOutOfTokens |-> TRUE] }

\* a message as createDMessage makes it: no count yet, never updated
NewMessage(id, fragments) ==
    [id |-> id, fragments |-> fragments, tokenCount |-> 0, updated |-> Earlier]
NewPendingMessage(id, fragments) ==
    Merge(NewMessage(id, fragments), [pendingIncomplete |-> TRUE])

RECURSIVE CountMessages(_)
CountMessages(list) ==
    IF list = <<>> THEN 0 ELSE Len(Head(list).messages) + CountMessages(Tail(list))
\* the store has room for n more messages
Room(n) == CountMessages(conversations) + n <= MaxMsgs

\* the messages and fragments the callers of Spec pass
InMessages ==
    { NewMessage(1, <<TextFragment("f1", "hi")>>),
      NewPendingMessage(2, <<TextFragment(NoFId, "so far"), PlaceholderFragment(NoFId, "wait")>>) }
InMessageLists == {<<>>, <<NewMessage(1, <<TextFragment("f1", "hi")>>)>>}
\* the conversations an import brings: one of the store's ids or an outside one
InConversations ==
    [id : Ids(conversations) \cup {ExternalCId}, messages : InMessageLists, tokenCount : {0},
     updated : {Earlier}, abortController : {NoController}]
\* the arrays deleteConversations is given: none, one id, or one id and all the others
InCIdArrays ==
    {<<>>} \cup {<<first>> : first \in CIdArgs}
           \cup {<<first>> \o SetToSeq(CIdArgs \ {first}) : first \in CIdArgs}

Next ==
    \/ prependNewConversation
    \/ \E c \in InConversations, preventClash \in BOOLEAN :
            Room(Len(c.messages)) /\ importConversation(c, preventClash)
    \/ \E cId \in CIdArgs : \E mId \in MIdOrNullArgs(cId) : branchConversation(cId, mId)
    \/ \E cIds \in InCIdArrays : deleteConversations(cIds)
    \/ \E cId \in CIdArgs, h \in HandleArgs : setAbortController(cId, h)
    \/ \E cId \in CIdArgs : abortConversationTemp(cId)
    \/ \E cId \in CIdArgs, ms \in InMessageLists :
            Room(Len(ms) - Len(messagesOf(conversations, cId))) /\ setMessages(cId, ms)
    \/ \E cId \in CIdArgs, m \in InMessages : Room(1) /\ appendMessage(cId, m)
    \/ \E cId \in CIdArgs : \E mId \in MIdArgs(cId) : deleteMessage(cId, mId)

Spec == Init /\ [][Next]_vars

(***************************************************************************)
(* SpecEdit: one conversation, edited message by message and fragment by   *)
(* fragment.                                                               *)
(***************************************************************************)
EditFragments == { TextFragment("f1", "hi"), PlaceholderFragment(NoFId, "wait") }
\* callers make a message with an id the conversation does not hold yet
FreshMIds(conversationId) ==
    LET free == MsgIds \ {m.id : m \in Range(messagesOf(conversations, conversationId))}
    IN  IF free = {} THEN {} ELSE {Min(free)}
EditMessages(conversationId) ==
    UNION {{NewMessage(id, <<>>), NewPendingMessage(id, <<>>)} : id \in FreshMIds(conversationId)}
EditMessageLists == {<<>>, <<NewMessage(1, <<TextFragment("f1", "hi")>>)>>}
EditUpdates == { <<>>, [pendingIncomplete |-> TRUE] }

InitEdit ==
    /\ conversations = <<createDConversation(1)>>
    /\ nextCId = 2
    /\ chatLLMId = "llm-a"
    /\ last = Call("init", <<>>, {})

\* the (conversation, message) pairs and (conversation, message, fragment)
\* triples callers name: the ones the store holds, and one that misses at each level
MessageArgs ==
    UNION {{<<cId, mId>> : mId \in MIdArgs(cId)} : cId \in Ids(conversations)}
        \cup {<<MissingCId, MissingMId>>}
FragmentArgs ==
    UNION {{<<a[1], a[2], fId>> : fId \in FIdArgs(a[1], a[2])} : a \in MessageArgs}

RECURSIVE CountFragments(_)
CountFragments(messages) ==
    IF messages = <<>> THEN 0 ELSE Len(Head(messages).fragments) + CountFragments(Tail(messages))
\* the conversation has room for one more fragment
FragmentRoom(conversationId) == CountFragments(messagesOf(conversations, conversationId)) < MaxFrags

NextEdit ==
    \/ \E cId \in CIdArgs, ms \in EditMessageLists : setMessages(cId, ms)
    \/ \E cId \in CIdArgs : \E m \in EditMessages(cId) : appendMessage(cId, m)
    \/ \E a \in MessageArgs : deleteMessage(a[1], a[2])
    \/ \E a \in MessageArgs, u \in EditUpdates, rps \in BOOLEAN, tu \in BOOLEAN :
            editMessage(a[1], a[2], u, rps, tu)
    \/ \E a \in MessageArgs, f \in EditFragments, rps \in BOOLEAN, tu \in BOOLEAN :
            FragmentRoom(a[1]) /\ appendMessageFragment(a[1], a[2], f, rps, tu)
    \/ \E a \in FragmentArgs, rps \in BOOLEAN, tu \in BOOLEAN :
            deleteMessageFragment(a[1], a[2], a[3], rps, tu)
    \/ \E a \in FragmentArgs, f \in EditFragments, rps \in BOOLEAN, tu \in BOOLEAN :
            replaceMessageFragment(a[1], a[2], a[3], f, rps, tu)

SpecEdit == InitEdit /\ [][NextEdit]_vars

(***************************************************************************)
(* SpecLoad: a persisted blob is read, migrated and repaired.              *)
(***************************************************************************)
\* the sequences of at most n elements of S
SeqsUpTo(S, n) == UNION {[1..k -> S] : k \in 0..n}
\* messages in the shape of versions 2 and 3: one text, `typing` while streaming
LegacyMessages ==
    { [id |-> 0, text |-> "hi", tokenCount |-> 2, updated |-> Earlier],
      [id |-> 0, text |-> "so far", typing |-> TRUE, tokenCount |-> 0, updated |-> Earlier] }
\* messages in the shape of version 4, as partialize saved them
SavedMessages ==
    { [NewMessage(0, <<TextFragment("f1", "hi")>>) EXCEPT !.tokenCount = 2],
      NewPendingMessage(0, <<TextFragment(NoFId, "so far"), PlaceholderFragment(NoFId, "wait")>>) }
Numbered(messages) == [i \in DOMAIN messages |-> [messages[i] EXCEPT !.id = i]]
PersistedConversation(id, messages) ==
    [id |-> id, messages |-> Numbered(messages),
     tokenCount |-> 3 + SumCounts(messages), updated |-> Earlier]
\* the conversations of a blob whose messages are drawn from Messages
PersistedLists(Messages) ==
    { [i \in DOMAIN ms |-> PersistedConversation(i, ms[i])] :
        ms \in SeqsUpTo(SeqsUpTo(Messages, MaxMsgs), MaxCId) }
LegacyVersions == {2, 3}

InitLoad ==
    /\ \E version \in LegacyVersions \cup {CurrentVersion} :
         \E list \in PersistedLists(IF version < CurrentVersion
                                    THEN LegacyMessages ELSE SavedMessages) :
            /\ conversations = list
            /\ last = [Call("persisted", <<>>, {}) EXCEPT !.before = Blob(version, list, <<>>)]
    /\ nextCId = Len(conversations) + 1
    /\ chatLLMId = "llm-a"

NextLoad ==
    \/ \E backedUp \in BOOLEAN : migrate(backedUp)
    \/ rehydrate

SpecLoad == InitLoad /\ [][NextLoad]_vars

(***************************************************************************)
(* SpecTokens: one conversation, its messages counted while the default    *)
(* model changes.                                                          *)
(***************************************************************************)
TokenFragments == { TextFragment("f1", "hi") }
TokenMessages(conversationId) ==
    UNION {{NewMessage(id, <<TextFragment("f1", "hi")>>), NewPendingMessage(id, <<>>)} :
                id \in FreshMIds(conversationId)}
\* lists as setMessages gets them: its own messages back, or a message with a count
TokenMessageLists(conversationId) ==
    { <<>>, messagesOf(conversations, conversationId),
      <<[NewMessage(1, <<TextFragment("f1", "hi")>>) EXCEPT !.tokenCount = 2]>> }
TokenConversations ==
    [id : Ids(conversations), messages : TokenMessageLists(1) \ {<<>>}, tokenCount : {0},
     updated : {Earlier}, abortController : {NoController}]

InitTokens ==
    /\ conversations = <<createDConversation(1)>>
    /\ nextCId = 2
    /\ chatLLMId = "llm-a"
    /\ last = Call("init", <<>>, {})

NextTokens ==
    \/ \E llmId \in LLMIds : setChatLLMId(llmId)
    \/ \E c \in TokenConversations : importConversation(c, FALSE)
    \/ \E cId \in CIdArgs : \E ms \in TokenMessageLists(cId) : setMessages(cId, ms)
    \/ \E cId \in CIdArgs : \E m \in TokenMessages(cId) : appendMessage(cId, m)
    \/ \E a \in MessageArgs : deleteMessage(a[1], a[2])
    \/ \E a \in MessageArgs, u \in EditUpdates, rps \in BOOLEAN :
            editMessage(a[1], a[2], u, rps, FALSE)
    \/ \E a \in MessageArgs, f \in TokenFragments, rps \in BOOLEAN :
            FragmentRoom(a[1]) /\ appendMessageFragment(a[1], a[2], f, rps, FALSE)
    \/ \E a \in FragmentArgs, rps \in BOOLEAN :
            deleteMessageFragment(a[1], a[2], a[3], rps, FALSE)
    \/ \E a \in FragmentArgs, f \in TokenFragments, rps \in BOOLEAN :
            replaceMessageFragment(a[1], a[2], a[3], f, rps, FALSE)

SpecTokens == InitTokens /\ [][NextTokens]_vars

(***************************************************************************)
(* SpecShare: a reader keeps the list it read before a call, and the       *)
(* caller keeps its argument.  JavaScript objects are shared: a write on   *)
(* an object shows in every list and variable that holds it.  The handle   *)
(* is a reference in both lists; abort() changes the controller, not the   *)
(* field, so the snapshot keeps the field as it read it.                   *)
(***************************************************************************)
\* the records a reader and the caller hold across a call
Shared(snapshot, argument) == [snapshot |-> snapshot, argument |-> argument]

\* messages.slice(0, n) of a conversation of the list: a new array of the same objects
sliceOf(list, from, n) == SubSeq(messagesOf(list, from), 1, n)
\* the list a reader holds, after the objects at messages[0..n) of `from` were
\* given to updateMessagesTokenCounts
snapshotAfterCount(list, from, n, llmId, forceUpdate) ==
    [i \in DOMAIN list |->
        IF list[i].id # from THEN list[i]
        ELSE [list[i] EXCEPT !.messages = [k \in DOMAIN @ |->
                IF k <= n THEN updateMessageTokenCount(@[k], llmId, forceUpdate) ELSE @[k]]]]

\* appendMessage of a message the caller made: line 182 counts it in place
appendMessageOfCaller(conversationId, message) ==
    LET list == Aged(conversations)
        ran == find(list, conversationId) # <<>>      \* the update function ran
        written == IF ran /\ ~isPending(message)
                   THEN updateMessageTokenCount(message, chatLLMId, TRUE) ELSE message
    IN  /\ Len(messagesOf(conversations, conversationId)) < MaxMsgs
        /\ conversations' = _editConversation(list, conversationId,
                                LAMBDA c : appendMessageUpdate(c, message, chatLLMId))
        /\ last' = [Call("appendMessage", <<>>, {}) EXCEPT !.before =
                        <<[was |-> Shared(list, <<message>>),
                           held |-> Shared(list, <<written>>)]>>]
        /\ UNCHANGED <<nextCId, chatLLMId>>

\* setMessages of the first n messages of a conversation of the list the
\* caller read: line 172 counts in place those that have no count
setMessagesOfSnapshot(conversationId, from, n) ==
    LET list == Aged(conversations)
        newMessages == sliceOf(list, from, n)
        ran == find(list, conversationId) # <<>>
        after == IF ran THEN snapshotAfterCount(list, from, n, chatLLMId, FALSE) ELSE list
    IN  /\ conversations' = _editConversation(list, conversationId,
                                LAMBDA c : setMessagesUpdate(c, newMessages, chatLLMId))
        /\ last' = [Call("setMessages", <<>>, AbortedBy(conversations, conversationId))
                    EXCEPT !.before =
                        <<[was |-> Shared(list, newMessages),
                           held |-> Shared(after, sliceOf(after, from, n))]>>]
        /\ UNCHANGED <<nextCId, chatLLMId>>

\* importConversation of a conversation the caller made: lines 82 and 87 write
\* its id, its tokenCount and the counts of its messages in place
importConversationOfCaller(conversation, preventClash) ==
    LET list == Aged(conversations)
        clash == find(list, conversation.id) # <<>>
        aborted == IF clash THEN abortExisting(list, conversation.id) ELSE list
        imported == [conversation EXCEPT
                        !.id = IF clash /\ preventClash THEN nextCId ELSE @,
                        !.messages = updateMessagesTokenCountsMessages(@, chatLLMId, TRUE),
                        !.tokenCount = updateMessagesTokenCounts(conversation.messages, chatLLMId, TRUE)]
    IN  /\ (clash /\ preventClash) => nextCId <= MaxCId
        /\ conversations' = importedFirst(imported, aborted)
        /\ nextCId' = IF clash /\ preventClash THEN nextCId + 1 ELSE nextCId
        /\ last' = [Call("importConversation", <<imported.id>>,
                         NewlyAborted({conversation.id}, list, aborted))
                    EXCEPT !.log = IF clash /\ preventClash THEN {ClashWarning} ELSE {},
                           !.before = <<[was |-> Shared(list, <<conversation>>),
                                         held |-> Shared(list, <<imported>>)]>>]
        /\ UNCHANGED chatLLMId

ShareLLMIds == {NoLLM, "llm-a"}
ShareMessages(conversationId) ==
    UNION {{NewMessage(id, <<TextFragment("f1", "hi")>>),
            NewPendingMessage(id, <<TextFragment("f1", "hi")>>)} :
                id \in FreshMIds(conversationId)}
ShareConversations ==
    [id : {1}, messages : {<<>>, <<NewMessage(1, <<TextFragment("f1", "hi")>>)>>},
     tokenCount : {0}, updated : {Earlier}, abortController : {NoController}]

InitShare ==
    /\ conversations = <<createDConversation(1)>>
    /\ nextCId = 2
    /\ chatLLMId = "llm-a"
    /\ last = Call("init", <<>>, {})

NextShare ==
    \/ \E llmId \in ShareLLMIds : setChatLLMId(llmId)
    \/ \E cId \in CIdArgs : \E m \in ShareMessages(cId) : Room(1) /\ appendMessageOfCaller(cId, m)
    \/ \E cId \in CIdArgs, from \in Ids(conversations) :
         \E n \in 0..Len(messagesOf(conversations, from)) :
            Room(n - Len(messagesOf(conversations, cId))) /\ setMessagesOfSnapshot(cId, from, n)
    \/ \E c \in ShareConversations, preventClash \in BOOLEAN :
            Room(Len(c.messages)) /\ importConversationOfCaller(c, preventClash)
    \/ \E a \in MessageArgs, rps \in BOOLEAN : editMessage(a[1], a[2], <<>>, rps, FALSE)

SpecShare == InitShare /\ [][NextShare]_vars

(***************************************************************************)
(* SpecFrame: the within-conversation operations are called on one         *)
(* conversation, and on an id that is not listed, beside another           *)
(* conversation that holds messages, a handle and a title.                 *)
(***************************************************************************)
\* the conversation beside the one the calls name
Bystander ==
    [id |-> 2,
     messages |-> <<[NewMessage(1, <<TextFragment("f1", "hi")>>) EXCEPT !.tokenCount = 2],
                    NewPendingMessage(2, <<PlaceholderFragment("f2", "wait")>>)>>,
     tokenCount |-> 3 + (4 + 2) + (4 + 0),
     updated |-> Earlier,
     abortController |-> LiveController,
     autoTitle |-> "a title"]
FrameCIdArgs == {1, MissingCId}
FrameMIdArgs == {1, MissingMId}
FrameFragments == { TextFragment("f1", "hi") }
FrameMessages == { NewMessage(1, <<>>), NewPendingMessage(1, <<>>) }
FrameMessageLists == { <<>>, <<NewMessage(1, <<TextFragment("f1", "hi")>>)>> }
FrameStrings == { "x" }
FrameSymbols == { "x", NoSymbol }

InitFrame ==
    /\ conversations \in { <<createDConversation(1), Bystander>>,
                           <<Bystander, createDConversation(1)>> }
    /\ nextCId = 3
    /\ chatLLMId = "llm-a"
    /\ last = Call("init", <<>>, {})

NextFrame ==
    \/ \E cId \in FrameCIdArgs, h \in HandleArgs : setAbortController(cId, h)
    \/ \E cId \in FrameCIdArgs : abortConversationTemp(cId)
    \/ \E cId \in FrameCIdArgs, ms \in FrameMessageLists : setMessages(cId, ms)
    \/ \E cId \in FrameCIdArgs, m \in FrameMessages :
            messagesOf(conversations, 1) = <<>> /\ appendMessage(cId, m)
    \/ \E cId \in FrameCIdArgs, mId \in FrameMIdArgs : deleteMessage(cId, mId)
    \/ \E cId \in FrameCIdArgs, mId \in FrameMIdArgs, rps \in BOOLEAN, tu \in BOOLEAN :
            editMessage(cId, mId, <<>>, rps, tu)
    \/ \E cId \in FrameCIdArgs, mId \in FrameMIdArgs, f \in FrameFragments :
            messagesOf(conversations, 1) # <<>> /\ appendMessageFragment(cId, mId, f, FALSE, FALSE)
    \/ \E cId \in FrameCIdArgs, mId \in FrameMIdArgs :
            deleteMessageFragment(cId, mId, "f1", FALSE, FALSE)
    \/ \E cId \in FrameCIdArgs, mId \in FrameMIdArgs, f \in FrameFragments :
            replaceMessageFragment(cId, mId, "f1", f, FALSE, FALSE)
    \/ \E cId \in FrameCIdArgs, mId \in FrameMIdArgs, d \in MetadataDeltas, tu \in BOOLEAN :
            updateMetadata(cId, mId, d, tu)
    \/ \E cId \in FrameCIdArgs, s \in FrameStrings : setSystemPurposeId(cId, s)
    \/ \E cId \in FrameCIdArgs, s \in FrameStrings : setAutoTitle(cId, s)
    \/ \E cId \in FrameCIdArgs, s \in FrameStrings : setUserTitle(cId, s)
    \/ \E cId \in FrameCIdArgs, s \in FrameSymbols : setUserSymbol(cId, s)

SpecFrame == InitFrame /\ [][NextFrame]_vars

(***************************************************************************)
(* SpecLate: a stream that writes into the message LateMId of the          *)
(* conversation LateCId is still running after the user removed that       *)
(* message, or that conversation; its calls interleave with the user's.    *)
(***************************************************************************)
LateCId == 1
LateMId == 1
\* a message the stream does not write into
OtherMessage ==
    [NewMessage(2, <<TextFragment("f1", "hi")>>) EXCEPT !.tokenCount = 2]
\* the lists deleteMessage(LateCId, LateMId) leaves: the conversation without
\* the message, alone or before another conversation
AfterDeleteMessage ==
    { <<[createDConversation(1) EXCEPT !.messages = ms,
                                       !.tokenCount = foldTokenCount(ms),
                                       !.abortController = LiveController]>> \o rest :
        ms \in {<<>>, <<OtherMessage>>},
        rest \in {<<>>, <<AgeConversation(createDConversation(2))>>} }

\* the state right after the user's deleteMessage, which leaves the handle of
\* the stream as it is, or right after deleteConversations([LateCId]), which
\* aborts it and makes a new conversation when none is left
InitLate ==
    /\ chatLLMId = "llm-a"
    /\ \/ /\ conversations \in AfterDeleteMessage
          /\ nextCId = Len(conversations) + 1
          /\ last = Call("deleteMessage", <<>>, {})
       \/ /\ conversations = <<createDConversation(2)>>
          /\ nextCId = 3
          /\ last = Call("deleteConversations", <<2>>, {LateCId})

\* what the user brings back: a copy of the removed conversation, with the message
LateConversations ==
    { [id |-> LateCId,
       messages |-> <<NewPendingMessage(LateMId, <<TextFragment("f1", "hi")>>)>>,
       tokenCount |-> 0, updated |-> Earlier, abortController |-> NoController] }
LateFragments == { TextFragment("f2", "late") }
\* the updates of the stream's editMessage: the flag alone, or the fragments so far
LateUpdates == EditUpdates \cup { [fragments |-> <<f>>] : f \in LateFragments }
\* the messages the user appends: their ids are new, never the removed one
LateMessages(conversationId) ==
    { NewMessage(id, <<>>) :
        id \in (MsgIds \ {LateMId}) \ {m.id : m \in Range(messagesOf(conversations, conversationId))} }

NextLate ==
    \* the calls of the stream
    \/ \E u \in LateUpdates, rps \in BOOLEAN : editMessage(LateCId, LateMId, u, rps, FALSE)
    \/ \E f \in LateFragments, rps \in BOOLEAN :
            appendMessageFragment(LateCId, LateMId, f, rps, FALSE)
    \* the calls of the user
    \/ \E cId \in Ids(conversations) : \E m \in LateMessages(cId) :
            Room(1) /\ appendMessage(cId, m)
    \/ \E c \in LateConversations, preventClash \in BOOLEAN :
            Room(1) /\ importConversation(c, preventClash)
    \/ \E a \in MessageArgs : deleteMessage(a[1], a[2])
    \/ deleteConversations(<<LateCId>>)

SpecLate == InitLate /\ [][NextLate]_vars

(***************************************************************************)
(* Properties of the list of conversations, under Spec.                    *)
(***************************************************************************)
\* the 0-based position of the conversation with this id, -1 when there is none
PositionOf(list, cId) ==
    IF \E i \in DOMAIN list : list[i].id = cId
    THEN Min({i \in DOMAIN list : list[i].id = cId}) - 1
    ELSE -1
WithoutId(message) == DeleteField(message, "id")

\* C1: the list of conversations is never empty, whatever the calls were;
\* so also right after a deleteConversations that names every conversation.
C1_NeverEmpty == Len(conversations) >= 1
\* a deleteConversations has just emptied the list and refilled it with a new conversation
C1_Witness ==
    /\ last.op = "deleteConversations"
    /\ Len(conversations) = 1
    /\ conversations[1].id = nextCId - 1
    /\ conversations[1].updated = DateNow

\* C2: no two conversations of the list have the same id.
C2_UniqueIds ==
    \A i, j \in DOMAIN conversations : i # j => conversations[i].id # conversations[j].id
\* an import has just met a clash and taken a new id, next to the conversation it clashed with
C2_Witness ==
    /\ last.op = "importConversation"
    /\ ClashWarning \in last.log
    /\ Len(conversations) >= 2

\* C4, as claimed: appendMessage(cId, m) then deleteMessage(cId, m.id) leaves the
\* conversation with the messages and the tokenCount it had before the append.
C4_AppendDeleteRestores ==
    (last.op = "deleteMessage" /\ last.before # <<>>) =>
        LET pre == last.before[1]
            c == find(conversations, pre.cId)[1]
        IN  c.messages = pre.messages /\ c.tokenCount = pre.tokenCount
\* C4, amended: when no message of the conversation had the id of m, the pair
\* leaves the messages as they were and the tokenCount at the fold of those
\* messages, which is the earlier tokenCount whenever that was their fold.
C4_AppendDeleteRestoresFreshId ==
    (/\ last.op = "deleteMessage" /\ last.before # <<>>
     /\ \A m \in Range(last.before[1].messages) : m.id # last.before[1].mId) =>
        LET pre == last.before[1]
            c == find(conversations, pre.cId)[1]
        IN  /\ c.messages = pre.messages
            /\ c.tokenCount = 3 + SumCounts(pre.messages)
            /\ pre.tokenCount = 3 + SumCounts(pre.messages) => c.tokenCount = pre.tokenCount
\* such a pair has just run on a conversation that held a message with another id
C4_Witness ==
    /\ last.op = "deleteMessage" /\ last.before # <<>>
    /\ last.before[1].messages # <<>>
    /\ \A m \in Range(last.before[1].messages) : m.id # last.before[1].mId

\* C5: deleteConversations returns the id of a conversation of the new list: the
\* one at the old position of the first named id when that position exists in
\* the new list, the one at position 0 otherwise.
C5_DeleteReturnsNextInLine ==
    [][last'.op = "deleteConversations" =>
       \A cIds \in InCIdArrays : deleteConversations(cIds) =>
          LET i == IF Len(cIds) > 0 THEN PositionOf(conversations, cIds[1]) ELSE -1
              new == conversations'
              ret == last'.ret
          IN  /\ Len(ret) = 1 /\ ret[1] \in Ids(new)
              /\ ret[1] = IF i >= 0 /\ i < Len(new) THEN new[i + 1].id ELSE new[1].id]_vars
\* a deleteConversations has just returned a conversation that is not the first of the list
C5_Witness ==
    /\ last.op = "deleteConversations"
    /\ Len(conversations) >= 2
    /\ last.ret[1] # conversations[1].id

\* C6: importConversation(c, false) of an id the list holds: abort() is called on
\* the handle of the conversation that held the id, if it has one; that
\* conversation leaves the list; the imported one is first; the id is returned
\* as it was; the list is as long as before.
C6_ImportOverwrites ==
    [][last'.op = "importConversation" =>
       \A c \in InConversations :
          (c.id \in Ids(conversations) /\ importConversation(c, FALSE)) =>
              LET old == find(conversations, c.id)[1]
                  new == conversations'
              IN  /\ last'.aborted = IF old.abortController # NoController THEN {c.id} ELSE {}
                  /\ Len(new) = Len(conversations)
                  /\ new[1].id = c.id
                  /\ [i \in DOMAIN new[1].messages |-> new[1].messages[i].fragments]
                        = [i \in DOMAIN c.messages |-> c.messages[i].fragments]
                  /\ \A i \in 2..Len(new) : new[i].id # c.id
                  /\ Tail(new) = filter(Aged(conversations), LAMBDA x : x.id # c.id)
                  /\ last'.ret = <<c.id>>]_vars
\* an import has just replaced a conversation that had a handle, keeping the id
C6_Witness ==
    /\ last.op = "importConversation"
    /\ last.aborted = {last.ret[1]}
    /\ Len(conversations) >= 2

\* C7: branchConversation(cId, mId) of an id the list does not hold returns null
\* and leaves the list as it is; otherwise it puts one new conversation first,
\* with a new id and the messages of the source up to and including mId (all
\* of them when mId is null), leaves the others as they were, one position
\* further, and returns the new id.
C7_BranchPrepends ==
    [][last'.op = "branchConversation" =>
       \A cId \in CIdArgs : \A mId \in MIdOrNullArgs(cId) :
          branchConversation(cId, mId) =>
              IF cId \notin Ids(conversations)
              THEN last'.ret = <<>> /\ conversations' = Aged(conversations)
              ELSE LET source == find(Aged(conversations), cId)[1]
                       at == IF mId = <<>> THEN -1
                             ELSE IF \E i \in DOMAIN source.messages : source.messages[i].id = mId[1]
                                  THEN Min({i \in DOMAIN source.messages : source.messages[i].id = mId[1]})
                                  ELSE -1
                       keep == IF at >= 1 THEN at ELSE Len(source.messages)
                       branched == conversations'[1]
                   IN  /\ Len(conversations') = Len(conversations) + 1
                       /\ Tail(conversations') = Aged(conversations)
                       /\ branched.id \notin Ids(conversations)
                       /\ last'.ret = <<branched.id>>
                       /\ Len(branched.messages) = keep
                       /\ \A i \in 1..keep :
                            WithoutId(branched.messages[i]) = WithoutId(source.messages[i])]_vars
\* a branch has just been cut before the end of a conversation
C7_Witness ==
    /\ last.op = "branchConversation" /\ last.ret # <<>>
    /\ conversations[1].id = last.ret[1]
    /\ Len(conversations[1].messages) = 1
    /\ \E i \in 2..Len(conversations) :
            /\ Len(conversations[i].messages) = 2
            /\ WithoutId(conversations[i].messages[1]) = WithoutId(conversations[1].messages[1])

\* C9: saving and loading any state of the store (partialize, then the fixups
\* of onRehydrateStorage) gives conversations whose handle is null and whose
\* fragments all have an fId.
C9_RoundTrip ==
    LET stored == partialize(conversations)
        loaded == onRehydrateStorage(stored)
    IN  /\ \A c \in Range(stored) : ~HasField(c, "abortController")
        /\ Len(loaded) = Len(conversations)
        /\ \A c \in Range(loaded) :
            /\ HasField(c, "abortController") /\ c.abortController = NoController
            /\ \A m \in Range(c.messages) : \A f \in Range(m.fragments) : f.fId # NoFId
\* a state with a live handle, and a text and a placeholder without fId
C9_Witness ==
    /\ \E c \in Range(conversations) : c.abortController = LiveController
    /\ \E c \in Range(conversations) : \E m \in Range(c.messages) :
            /\ \E f \in Range(m.fragments) : f.fId = NoFId /\ f.part.pt = "text"
            /\ \E f \in Range(m.fragments) : f.fId = NoFId /\ f.part.pt = "ph"

(***************************************************************************)
(* Properties of the messages of a conversation, under SpecEdit.           *)
(***************************************************************************)
\* C3: after an appendMessage or a deleteMessage on a conversation (the call
\* has just stamped its `updated`), its tokenCount is 3 plus, for each of its
\* messages, 4 plus the tokenCount of the message, whether the messages are
\* pending or not, counted or not.
C3_TokenCountFold ==
    last.op \in {"appendMessage", "deleteMessage"} =>
        \A c \in Range(conversations) :
            c.updated = DateNow => c.tokenCount = 3 + SumCounts(c.messages)
\* a message has just been appended next to one whose count is known, and one
\* of the two is pending with no count
C3_Witness ==
    /\ last.op = "appendMessage"
    /\ conversations[1].updated = DateNow
    /\ Len(conversations[1].messages) = 2
    /\ \E m \in Range(conversations[1].messages) : m.tokenCount > 0
    /\ \E m \in Range(conversations[1].messages) : isPending(m) /\ m.tokenCount = 0
    /\ conversations[1].tokenCount > 11

\* C8: replaceMessageFragment with an fId the message does not hold leaves the
\* fragments of the message as they were, reports the miss without throwing,
\* and changes the `updated` of the message and of the conversation only when
\* touchUpdated is true.
C8_ReplaceMissingFragment ==
    (last.op = "replaceMessageFragment" /\ last.before # <<>>) =>
        LET pre == last.before[1]
            c == find(conversations, pre.cId)[1]
            m == messageOf(conversations, pre.cId, pre.mId)[1]
        IN  /\ m.fragments = pre.fragments
            /\ Len(c.messages) = pre.messages
            /\ c.updated = IF pre.touchUpdated THEN DateNow ELSE pre.updated[1]
            /\ m.updated = IF pre.touchUpdated THEN DateNow ELSE pre.updated[2]
            /\ last.log = {FragmentNotFound}
\* a replaceMessageFragment has just missed in a message that has a fragment,
\* without touching the timestamps
C8_Witness ==
    /\ last.op = "replaceMessageFragment" /\ last.before # <<>>
    /\ ~last.before[1].touchUpdated
    /\ last.before[1].fragments # <<>>
    /\ conversations[1].updated = Earlier

(***************************************************************************)
(* Properties of the load, under SpecLoad.                                 *)
(***************************************************************************)
\* C10: a blob with a version below 4 and at least one conversation has every
\* conversation converted before the repair, whether the backup succeeded or
\* not; once loaded, each message that was a single legacy text has one
\* fragment or more and no message has a pendingIncomplete field. A blob of
\* version 4 is not converted.
C10_LoadConverts ==
    LET blob == last.before[1]
        legacy == blob.version < CurrentVersion /\ Len(blob.conversations) > 0
        converted == [i \in DOMAIN blob.conversations |->
                         convertDConversation_V3_V4(blob.conversations[i])]
    IN  /\ (last.op = "migrate" /\ legacy) =>
              /\ blob.backedUp \in {<<TRUE>>, <<FALSE>>}
              /\ conversations = converted
        /\ (last.op = "onRehydrateStorage" /\ legacy) =>
              /\ RehydrateTypeError \notin last.log
              /\ conversations = onRehydrateStorage(converted)
              /\ Len(conversations) = Len(blob.conversations)
              /\ \A i \in DOMAIN conversations :
                    /\ Len(conversations[i].messages) = Len(blob.conversations[i].messages)
                    /\ \A j \in DOMAIN conversations[i].messages :
                          LET m == conversations[i].messages[j]
                          IN  /\ hasFragments(m) /\ Len(m.fragments) >= 1
                              /\ m.fragments[1].part =
                                    [pt |-> "text", text |-> blob.conversations[i].messages[j].text]
                              /\ ~HasField(m, "pendingIncomplete")
                              /\ ~HasField(m, "typing") /\ ~HasField(m, "text")
        /\ (last.op = "onRehydrateStorage" /\ blob.version = CurrentVersion) =>
              /\ blob.backedUp = <<>>
              /\ conversations = onRehydrateStorage(blob.conversations)
              /\ \A c \in Range(conversations) : \A m \in Range(c.messages) :
                    ~HasField(m, "pendingIncomplete")
\* a blob of version 3 whose message was still typing has been loaded, and
\* its backup had failed
C10_Witness ==
    /\ last.op = "onRehydrateStorage"
    /\ last.before[1].version = 3
    /\ last.before[1].backedUp = <<FALSE>>
    /\ \E c \in Range(last.before[1].conversations) : \E m \in Range(c.messages) :
            HasField(m, "typing")
    /\ \A c \in Range(conversations) : \A m \in Range(c.messages) : m.fragments # <<>>

\* a content fragment whose part is a placeholder
isPlaceholder(fragment) == fragment.ft = "content" /\ fragment.part.pt = "ph"
\* the fragments of the messages of the blob as the rehydrate pass finds them
FoundFragments(i, j) ==
    LET blob == last.before[1]
        found == IF blob.version < CurrentVersion /\ Len(blob.conversations) > 0
                 THEN convertDConversation_V3_V4(blob.conversations[i])
                 ELSE blob.conversations[i]
    IN  found.messages[j].fragments

\* C20: after the rehydrate pass no fragment of any message is a placeholder,
\* and no message has a pendingIncomplete or typing field; each fragment that
\* was a placeholder is, at its position, an error fragment whose text is the
\* placeholder's text followed by ' (did not complete)', and every other
\* fragment is at its position with the part it had
C20_PlaceholdersRepaired ==
    last.op = "onRehydrateStorage" =>
        \A i \in DOMAIN conversations : \A j \in DOMAIN conversations[i].messages :
            LET m == conversations[i].messages[j]
                found == FoundFragments(i, j)
            IN  /\ ~HasField(m, "pendingIncomplete")
                /\ ~HasField(m, "typing")
                /\ \A f \in Range(m.fragments) : ~isPlaceholder(f)
                /\ Len(m.fragments) = Len(found)
                /\ \A k \in DOMAIN found :
                        /\ m.fragments[k].ft = found[k].ft
                        /\ m.fragments[k].part =
                                IF isPlaceholder(found[k])
                                THEN [pt |-> "error",
                                      error |-> found[k].part.pText \o " (did not complete)"]
                                ELSE found[k].part
\* a blob of the current version whose second conversation ended on a
\* placeholder after a text has been repaired
C20_Witness ==
    /\ last.op = "onRehydrateStorage"
    /\ last.before[1].version = CurrentVersion
    /\ Len(conversations) = 2
    /\ \E j \in DOMAIN conversations[2].messages :
            /\ Len(FoundFragments(2, j)) = 2
            /\ isPlaceholder(FoundFragments(2, j)[2])
            /\ conversations[2].messages[j].fragments[1].part.pt = "text"
            /\ conversations[2].messages[j].fragments[2].part =
                    [pt |-> "error", error |-> "wait (did not complete)"]

(***************************************************************************)
(* Properties of the handles, under Spec.                                  *)
(***************************************************************************)
\* C11: no conversation of the list holds a handle that is not null and on
\* which the store has called abort(): a call that aborts the handle of a
\* conversation removes the conversation or sets its handle to null.
C11_NoAbortedHandleListed ==
    \A c \in Range(conversations) : c.abortController # AbortedController

\* the conversation a call on cId has left
After(cId) == find(conversations', cId)[1]

\* the ids of the conversations of the list that hold a handle
Holding(list) == {c.id : c \in {x \in Range(list) : x.abortController # NoController}}

\* C18: deleteConversations calls abort() on the handle of exactly the
\* conversations it removes that hold one; setMessages and abortConversationTemp
\* on a conversation that holds a handle call abort() on exactly that handle
\* and leave the conversation with a null handle; setAbortController calls
\* abort() on nothing and leaves the conversation with the handle it was given
C18_DestructiveOpsAbort ==
    [][/\ last'.op = "deleteConversations" =>
            last'.aborted = {id \in Holding(conversations) : id \notin Ids(conversations')}
       /\ last'.op = "abortConversationTemp" =>
            \A cId \in Ids(conversations) :
                abortConversationTemp(cId) =>
                    /\ last'.aborted = {cId} \cap Holding(conversations)
                    /\ After(cId).abortController = NoController
       /\ last'.op = "setMessages" =>
            \A cId \in Ids(conversations) : \A ms \in InMessageLists :
                setMessages(cId, ms) =>
                    /\ last'.aborted = {cId} \cap Holding(conversations)
                    /\ After(cId).abortController = NoController
       /\ last'.op = "setAbortController" =>
            /\ last'.aborted = {}
            /\ \A cId \in Ids(conversations) : \A h \in HandleArgs :
                    setAbortController(cId, h) => After(cId).abortController = h]_vars
\* deleteConversations has removed a conversation that held a handle, and kept another
C18_Witness ==
    /\ last.op = "deleteConversations"
    /\ last.aborted # {}
    /\ last.aborted \cap Ids(conversations) = {}
    /\ Len(conversations) = 1
    /\ last.ret = <<conversations[1].id>>
    /\ conversations[1].messages # <<>>

(***************************************************************************)
(* Properties of the token counts, under SpecTokens.                       *)
(***************************************************************************)
\* C12: the tokenCount of every message is never negative, and is 0 or what
\* the estimator gives for the fragments the message has now under the
\* default model configured now.
C12_CountIsZeroOrEstimate ==
    \A c \in Range(conversations) : \A m \in Range(c.messages) :
        /\ m.tokenCount >= 0
        /\ \/ m.tokenCount = 0
           \/ /\ chatLLMId \in RegisteredLLMs \ ThrowingLLMs
              /\ m.tokenCount = estimateTokensForFragments(m.fragments, chatLLMId)

\* the count a forced recomputation leaves under the model configured now
RecomputedCount(message) ==
    IF chatLLMId = NoLLM THEN 0                         \* no default model
    ELSE IF chatLLMId \notin RegisteredLLMs THEN 0      \* findLLMOrThrow throws
    ELSE IF chatLLMId \in ThrowingLLMs THEN 0           \* the estimator throws
    ELSE estimateTokensForFragments(message.fragments, chatLLMId)

\* C14: token recomputation never fails a mutation: importConversation returns
\* the id of a listed conversation and appendMessage has appended its message,
\* whatever the model registry holds; each count they recomputed is 0 when no
\* model is configured, 0 when the model is not registered or the estimator
\* throws, and the estimate of the message's fragments otherwise
C14_RecomputationNeverFails ==
    /\ last.op = "importConversation" =>
            /\ last.ret # <<>>
            /\ find(conversations, last.ret[1]) # <<>>
            /\ \A m \in Range(messagesOf(conversations, last.ret[1])) :
                    m.tokenCount = RecomputedCount(m)
    /\ (last.op = "appendMessage" /\ last.before # <<>>) =>
            LET m == messageOf(conversations, last.before[1].cId, last.before[1].mId)
            IN  /\ m # <<>>
                /\ ~isPending(m[1]) => m[1].tokenCount = RecomputedCount(m[1])
\* an import has counted a message with fragments while the estimator throws
C14_Witness ==
    /\ last.op = "importConversation"
    /\ chatLLMId \in ThrowingLLMs
    /\ \E m \in Range(messagesOf(conversations, last.ret[1])) :
            m.fragments # <<>> /\ m.tokenCount = 0

HeldMessageArgs == {a \in MessageArgs : messageOf(conversations, a[1], a[2]) # <<>>}
\* the conversation cId as editMessage(cId, mId, update, rps, false) leaves it
EditedBy(cId, mId, update(_), rps) ==
    find(_editConversation(Aged(conversations), cId,
            LAMBDA c : editMessageUpdate(c, mId, update, rps, FALSE, chatLLMId)), cId)[1]
\* what C16 says of the conversation `left` by a call with removePendingState = rps
\* on the message mId of cId
Completed(cId, mId, rps, left) ==
    LET before == messageOf(conversations, cId, mId)[1]
        hits == SelectSeq(left.messages, LAMBDA m : m.id = mId)
    IN  /\ hits # <<>>
        /\ \A after \in Range(hits) :
            /\ rps => /\ ~HasField(after, "pendingIncomplete")
                      /\ after.tokenCount = RecomputedCount(after)
                      /\ left.tokenCount = 3 + SumCounts(left.messages)
            /\ (~rps /\ HasField(after, "pendingIncomplete") /\ after.pendingIncomplete)
                    => after.tokenCount = before.tokenCount

\* C16: editMessage or a fragment operation with removePendingState, called in
\* any state on a message the conversation holds, leaves the message without
\* its pending flag, with the estimate of the fragments it has after the
\* patch under the configured model as tokenCount (0 without a usable model),
\* and the conversation with 3 + the sum of (4 + tokenCount) as tokenCount;
\* without removePendingState, a message that is pending afterwards keeps the
\* tokenCount it had
C16_CompletionRecounts ==
    \A a \in HeldMessageArgs : \A rps \in BOOLEAN :
        /\ \A u \in EditUpdates :
                Completed(a[1], a[2], rps, EditedBy(a[1], a[2], LAMBDA m : u, rps))
        /\ \A f \in TokenFragments :
                Completed(a[1], a[2], rps,
                          EditedBy(a[1], a[2], LAMBDA m : appendFragmentPatch(m, f), rps))
        /\ \A fId \in FIdArgs(a[1], a[2]) :
                Completed(a[1], a[2], rps,
                          EditedBy(a[1], a[2], LAMBDA m : deleteFragmentPatch(m, fId), rps))
        /\ \A fId \in FIdArgs(a[1], a[2]) : \A f \in TokenFragments :
                Completed(a[1], a[2], rps,
                          EditedBy(a[1], a[2], LAMBDA m : replaceFragmentPatch(m, fId, f), rps))
\* appendMessageFragment has left a message of two fragments, not pending,
\* with the count llm-b gives for two fragments, beside nothing else
C16_Witness ==
    /\ last.op = "appendMessageFragment"
    /\ chatLLMId = "llm-b"
    /\ \E c \in Range(conversations) : \E m \in Range(c.messages) :
            /\ ~HasField(m, "pendingIncomplete")
            /\ Len(m.fragments) = 2
            /\ m.tokenCount = 6
            /\ c.tokenCount = 3 + 4 + 6

\* the conversation cId as a call with this update function leaves it
LeftBy(cId, update(_)) == find(_editConversation(Aged(conversations), cId, update), cId)[1]
\* the tokenCounts of a list of messages, in order
Counts(messages) == [i \in DOMAIN messages |-> messages[i].tokenCount]
\* the messages other than mId
Others(messages, mId) == SelectSeq(messages, LAMBDA m : m.id # mId)
\* the messages other than mId have in `left` the counts they had, and a
\* message mId that is pending in `left` has the count it had
OthersKept(cId, mId, left) ==
    LET before == messagesOf(conversations, cId)
    IN  /\ Counts(Others(left.messages, mId)) = Counts(Others(before, mId))
        /\ \A m \in Range(left.messages) :
                (m.id = mId /\ isPending(m)) =>
                    \E b \in Range(before) : b.id = mId /\ b.tokenCount = m.tokenCount

\* C17: appendMessage, deleteMessage, editMessage, the fragment operations and
\* updateMetadata, called in any state, leave every message other than the
\* appended or targeted one with the tokenCount it had (fresh or not), leave a
\* targeted message that is pending with the count it had, and (but for
\* updateMetadata, which keeps the conversation's tokenCount) set the
\* conversation's tokenCount to 3 + the sum of (4 + those counts)
C17_OthersKeepCachedCounts ==
    \A cId \in Ids(conversations) :
        /\ \A m \in TokenMessages(cId) :
                LET left == LeftBy(cId, LAMBDA c : appendMessageUpdate(c, m, chatLLMId))
                IN  /\ Counts(SubSeq(left.messages, 1, Len(left.messages) - 1))
                            = Counts(messagesOf(conversations, cId))
                    /\ isPending(m) => left.messages[Len(left.messages)].tokenCount = m.tokenCount
                    /\ left.tokenCount = 3 + SumCounts(left.messages)
        /\ \A mId \in MIdArgs(cId) :
            /\ LET left == LeftBy(cId, LAMBDA c : deleteMessageUpdate(c, mId))
               IN  /\ Counts(left.messages) = Counts(Others(messagesOf(conversations, cId), mId))
                   /\ left.tokenCount = 3 + SumCounts(left.messages)
            /\ \A rps \in BOOLEAN :
                /\ \A u \in EditUpdates :
                        LET left == EditedBy(cId, mId, LAMBDA m : u, rps)
                        IN  /\ OthersKept(cId, mId, left)
                            /\ left.tokenCount = 3 + SumCounts(left.messages)
                /\ \A f \in TokenFragments :
                        LET left == EditedBy(cId, mId, LAMBDA m : appendFragmentPatch(m, f), rps)
                        IN  /\ OthersKept(cId, mId, left)
                            /\ left.tokenCount = 3 + SumCounts(left.messages)
                /\ \A fId \in FIdArgs(cId, mId) :
                        LET left == EditedBy(cId, mId, LAMBDA m : deleteFragmentPatch(m, fId), rps)
                        IN  /\ OthersKept(cId, mId, left)
                            /\ left.tokenCount = 3 + SumCounts(left.messages)
                /\ \A fId \in FIdArgs(cId, mId) : \A f \in TokenFragments :
                        LET left == EditedBy(cId, mId,
                                        LAMBDA m : replaceFragmentPatch(m, fId, f), rps)
                        IN  /\ OthersKept(cId, mId, left)
                            /\ left.tokenCount = 3 + SumCounts(left.messages)
            /\ \A d \in MetadataDeltas : \A tu \in BOOLEAN :
                    LET left == LeftBy(cId, LAMBDA c : updateMetadataUpdate(c, mId, d, tu))
                    IN  /\ Counts(left.messages) = Counts(messagesOf(conversations, cId))
                        /\ left.tokenCount = find(conversations, cId)[1].tokenCount
\* appendMessage has counted the message it appended and left the one before
\* it with a count that the configured model would not give
C17_Witness ==
    /\ last.op = "appendMessage"
    /\ \E c \in Range(conversations) :
            /\ Len(c.messages) = 2
            /\ ~isPending(c.messages[1])
            /\ c.messages[1].tokenCount # RecomputedCount(c.messages[1])
            /\ c.messages[2].tokenCount = RecomputedCount(c.messages[2])
            /\ c.messages[2].tokenCount # 0
            /\ c.tokenCount = 3 + SumCounts(c.messages)

(***************************************************************************)
(* Properties of shared records, under SpecShare.                          *)
(***************************************************************************)
\* C13: copy-on-write isolation: after every mutation the records of the
\* list a reader took before it, and the records of the caller's argument,
\* have the field values they had before the mutation
C13_HeldRecordsKeepTheirValues ==
    (last.op \in {"appendMessage", "setMessages", "importConversation"} /\ last.before # <<>>)
        => last.before[1].held = last.before[1].was

(***************************************************************************)
(* Properties of the frame of a call, under SpecFrame.                     *)
(***************************************************************************)
\* a call of a within-conversation operation with the id cId
FrameStep(cId) ==
    \/ \E h \in HandleArgs : setAbortController(cId, h)
    \/ abortConversationTemp(cId)
    \/ \E ms \in FrameMessageLists : setMessages(cId, ms)
    \/ \E m \in FrameMessages : appendMessage(cId, m)
    \/ \E mId \in FrameMIdArgs : deleteMessage(cId, mId)
    \/ \E mId \in FrameMIdArgs, rps \in BOOLEAN, tu \in BOOLEAN :
            editMessage(cId, mId, <<>>, rps, tu)
    \/ \E mId \in FrameMIdArgs, f \in FrameFragments :
            appendMessageFragment(cId, mId, f, FALSE, FALSE)
    \/ \E mId \in FrameMIdArgs : deleteMessageFragment(cId, mId, "f1", FALSE, FALSE)
    \/ \E mId \in FrameMIdArgs, f \in FrameFragments :
            replaceMessageFragment(cId, mId, "f1", f, FALSE, FALSE)
    \/ \E mId \in FrameMIdArgs, d \in MetadataDeltas, tu \in BOOLEAN :
            updateMetadata(cId, mId, d, tu)
    \/ \E s \in FrameStrings : setSystemPurposeId(cId, s)
    \/ \E s \in FrameStrings : setAutoTitle(cId, s)
    \/ \E s \in FrameStrings : setUserTitle(cId, s)
    \/ \E s \in FrameSymbols : setUserSymbol(cId, s)
\* the list has the length and the ids it had, position by position, and every
\* conversation but cId is as it was
Framed(cId) ==
    /\ Len(conversations') = Len(conversations)
    /\ \A i \in DOMAIN conversations :
            /\ conversations'[i].id = conversations[i].id
            /\ conversations[i].id # cId => conversations'[i] = AgeConversation(conversations[i])

Shape(list) ==
    [i \in DOMAIN list |->
        [id |-> list[i].id,
         messages |-> [j \in DOMAIN list[i].messages |->
                          [id |-> list[i].messages[j].id,
                           fragments |-> list[i].messages[j].fragments]]]]
LateOps == {"editMessage", "appendMessageFragment"}

\* C21: once deleteMessage has removed the message, or deleteConversations its
\* conversation, every later editMessage and appendMessageFragment of the
\* stream for that conversation and message leaves the ids of the
\* conversations, the ids of the messages of each, and the fragments of every
\* message as they were (every behaviour of SpecLate starts at the removal,
\* and every editMessage and appendMessageFragment in it is the stream's)
C21_LateStreamChangesNothing ==
    [][last'.op \in LateOps => Shape(conversations') = Shape(conversations)]_vars

\* C21, amended: the same, for the calls made while the list holds no
\* conversation with that id, or that conversation no message with that id
C21_LateStreamOnMissingMessage ==
    [][(last'.op \in LateOps /\ messageOf(conversations, LateCId, LateMId) = <<>>)
            => Shape(conversations') = Shape(conversations)]_vars
\* the stream has appended a fragment after the removal: the conversation is
\* listed, holds the other message as it was, and not the message of the stream
C21_Witness ==
    /\ last.op = "appendMessageFragment"
    /\ find(conversations, LateCId) # <<>>
    /\ messageOf(conversations, LateCId, LateMId) = <<>>
    /\ [i \in DOMAIN messagesOf(conversations, LateCId) |->
            messagesOf(conversations, LateCId)[i].fragments] = <<OtherMessage.fragments>>

====
